---- MODULE Spec2Model ----
(***************************************************************************)
(* Model of the ICO lookup pipeline of streamlit_app/utils/ico_processor.py *)
(* (name cleaning, query variants, record matching, the rate limiter, the   *)
(* retrying lookup and the batch orchestrator).                             *)
(*                                                                          *)
(* Text is a sequence of characters; a character is a string token.  The    *)
(* accented letter a-acute is written "a/", the double quote "DQ" and the   *)
(* backtick "BT".  Python's None is None (for text) or NoTag (for tags).    *)
(***************************************************************************)
EXTENDS Integers, Sequences, FiniteSets, TLC

VARIABLES
    company_names,   \* the input list of process_companies_with_progress
    hist,            \* whether this run records the history variables
    remote,          \* the result lists the remote service may answer with
    fcall,           \* the call of a pure function under study: name, arguments, result
    tstate,          \* per task: position of the future / worker
    variants,        \* per task: rpo_lookup_detail's local `variants`
    vi,              \* per task: index of the variant being tried
    attempt,         \* per task: the attempt number of the retry loop
    outcome,         \* per task: the returned dict, or the raised error
    reqs,            \* per task: log of the remote requests issued (history)
    max_per_min,     \* ThreadSafeRateLimiter.max_per_min
    window_start,    \* ThreadSafeRateLimiter.window_start
    count,           \* ThreadSafeRateLimiter.count
    lockHolder,      \* ThreadSafeRateLimiter._lock: 0 free, else the holder
    now,             \* the latest value of time.monotonic(), in seconds
    lpc,             \* per caller: position inside acquire()
    l_now,           \* per caller: local `now`
    l_elapsed,       \* per caller: local `elapsed`
    l_cnt,           \* per caller: the value read by `self.count += 1`
    wakeAt,          \* per caller: when time.sleep(sleep_for) may return
    epoch,           \* history: number of window resets so far
    admitted,        \* history: <<epoch, count>> written by each acquire
    acqTimes,        \* history: return times of the latest acquire() calls
    calls,           \* history: number of acquire() calls started
    mpc,             \* main thread: position in process_companies_with_progress
    offset,          \* main thread: loop variable `offset`
    idxs,            \* main thread: `idxs` of the current batch
    nextSubmit,      \* main thread: position in idxs of the next pool.submit
    table,           \* the six result lists, as one record of sequences
    stats,           \* st.session_state.processing_stats
    stopSeen,        \* history: offsets at which the stop check broke the loop
    order            \* history: indexes in the order their results were collected

limVars  == <<max_per_min, window_start, count, lockHolder, now, lpc, l_now,
              l_elapsed, l_cnt, wakeAt, epoch, admitted, acqTimes, calls>>
lookVars == <<variants, vi, attempt, outcome, reqs>>
mainVars == <<mpc, offset, idxs, nextSubmit, table, stats, stopSeen, order>>
vars     == <<company_names, hist, remote, fcall, tstate, lookVars, limVars, mainVars>>

----------------------------------------------------------------------------
(* Bounds of the model *)

MaxNameLen == 3     \* longest input name explored by LookupSpec
MaxNames   == 3     \* longest input list explored by Spec
MaxPerMin  == 2     \* largest max_per_min explored
MaxTime    == 60    \* the clock is read up to this time, and later only after a sleep
TickLen    == 30    \* granularity of the clock, in seconds
MaxIcoLen  == 9     \* longest identifier value given to normalize_ico
MaxRows    == 3     \* most rows of an input table
MaxRecords == 2     \* longest record list and identifier list given to the pure functions
MaxCalls   == 6     \* acquire() calls issued by the free-running callers
NumCallers == 2     \* free-running callers of LimiterSpec

(* Program constants (utils/config.py); BATCH_SIZE and MAX_WORKERS are      *)
(* scaled down from 60 and 6 and are varied as bounds.                      *)
RETRY_COUNT      == 3
RETRY_SLEEP_BASE == 7     \* tenths of a second (0.7 s)
BATCH_SIZE       == 2
MAX_WORKERS      == 2
WINDOW           == 60    \* the literal 60 of _acquire_internal

\* no pure function has been called
NoCall == [fn |-> "none", args |-> <<>>, result |-> <<>>]

None  == <<"None">>       \* None where text is expected
NoTag == "None"           \* None where a tag is expected

----------------------------------------------------------------------------
(* Text helpers *)

Whitespace == {" "}
QuoteChars == {"DQ", "'", "BT"}
Alphabet   == {" ", "a", "s", "A", "a/", ",", ".", "'"}

\* the characters of the names the lookup and the batch run are driven with
LookupAlphabet == {" ", "a/", ",", "s"}

TextsOver(A, n) == UNION {[1..k -> A] : k \in 0..n}
Texts(n) == TextsOver(Alphabet, n)

InSeq(x, s) == \E k \in 1..Len(s) : s[k] = x
Range(s) == {s[k] : k \in 1..Len(s)}

Min(S) == CHOOSE m \in S : \A k \in S : m <= k

\* str.casefold / re.IGNORECASE on one character
Lower(c) ==
    CASE c = "A" -> "a"
      [] c = "I" -> "i"
      [] c = "C" -> "c"
      [] c = "O" -> "o"
      [] c = "S" -> "s"
      [] c = "K" -> "k"
      [] c = "C^" -> "c^"
      [] OTHER -> c

casefold(s) == [k \in 1..Len(s) |-> Lower(s[k])]

RECURSIVE LStripChars(_, _)
LStripChars(s, cs) ==
    IF s # <<>> /\ Head(s) \in cs THEN LStripChars(Tail(s), cs) ELSE s

RECURSIVE RStripChars(_, _)
RStripChars(s, cs) ==
    IF s # <<>> /\ s[Len(s)] \in cs
    THEN RStripChars(SubSeq(s, 1, Len(s) - 1), cs)
    ELSE s

\* str.strip(chars)
StripChars(s, cs) == RStripChars(LStripChars(s, cs), cs)

\* str.strip()
strip(s) == StripChars(s, Whitespace)

\* s.split(",", 1)[0]
RECURSIVE BeforeComma(_)
BeforeComma(s) ==
    IF s = <<>> \/ Head(s) = "," THEN <<>>
    ELSE <<Head(s)>> \o BeforeComma(Tail(s))

\* unicodedata.normalize("NFKD", s) without the combining characters
strip_accents(s) == [k \in 1..Len(s) |-> IF s[k] = "a/" THEN "a" ELSE s[k]]

\* SPACES_REGEX.sub(" ", n)
RECURSIVE CollapseSpaces(_)
CollapseSpaces(s) ==
    IF s = <<>> THEN <<>>
    ELSE IF Head(s) \in Whitespace
         THEN <<" ">> \o CollapseSpaces(LStripChars(s, Whitespace))
         ELSE <<Head(s)>> \o CollapseSpaces(Tail(s))

----------------------------------------------------------------------------
(* LEGAL_FORMS_REGEX: each alternative is a sequence of tokens *)

Lit(c) == [k |-> "lit", c |-> c]     \* the character c
Opt(c) == [k |-> "opt", c |-> c]     \* c?
Ws0    == [k |-> "ws0", c |-> " "]   \* \s*
Ws1    == [k |-> "ws1", c |-> " "]   \* \s+
Word(w) == [k \in 1..Len(w) |-> Lit(w[k])]

LegalForms ==
    { <<Lit("s"), Opt("."), Ws0, Lit("r"), Opt("."), Ws0, Lit("o"), Opt(".")>>,
      Word(<<"s", "p", "o", "l", ".">>) \o
        <<Ws0, Lit("s"), Opt("."), Ws0, Lit("r"), Opt("."), Ws0, Lit("o"), Opt(".")>>,
      <<Lit("a"), Opt("."), Ws0, Lit("s"), Opt(".")>>,
      <<Lit("v"), Opt("."), Ws0, Lit("o"), Opt("."), Ws0, Lit("s"), Opt(".")>>,
      <<Lit("k"), Opt("."), Ws0, Lit("s"), Opt(".")>>,
      <<Lit("n"), Opt("."), Ws0, Lit("o"), Opt(".")>>,
      <<Lit("o"), Opt("."), Ws0, Lit("z"), Opt(".")>>,
      Word(<<"s^", "t", "a/", "t", "n", "y">>) \o <<Ws1>> \o
        Word(<<"p", "o", "d", "n", "i", "k">>),
      <<Lit("s^"), Opt("."), Ws0, Lit("p"), Opt(".")>>,
      Word(<<"d", "r", "u", "z^", "s", "t", "v", "o">>),
      Word(<<"a", "k", "c", "i", "o", "v", "a/">>) \o <<Ws1>> \o
        Word(<<"s", "p", "o", "l", "o", "c^", "n", "o", "s", "t^">>),
      Word(<<"k", "o", "m", "a", "n", "d", "i", "t", "n", "a/">>) \o <<Ws1>> \o
        Word(<<"s", "p", "o", "l", "o", "c^", "n", "o", "s", "t^">>),
      Word(<<"v", "e", "r", "e", "j", "n", "a/">>) \o <<Ws1>> \o
        Word(<<"o", "b", "c", "h", "o", "d", "n", "a/">>) \o <<Ws1>> \o
        Word(<<"s", "p", "o", "l", "o", "c^", "n", "o", "s", "t^">>),
      Word(<<"n", "e", "z", "i", "s", "k", "o", "v", "a/">>) \o <<Ws1>> \o
        Word(<<"o", "r", "g", "a", "n", "i", "z", "a/", "c", "i", "a">>),
      Word(<<"o", "b", "c^", "i", "a", "n", "s", "k", "e">>) \o <<Ws1>> \o
        Word(<<"z", "d", "r", "u", "z^", "e", "n", "i", "e">>) }

\* (?:,\s*)? in front of every alternative
LEGAL_FORMS_REGEX ==
    LegalForms \cup { <<Lit(","), Ws0>> \o p : p \in LegalForms }

\* does pat[p..] match s[k..] up to the end of s ($)?
RECURSIVE MatchToEnd(_, _, _, _)
MatchToEnd(pat, p, s, k) ==
    IF p > Len(pat) THEN k = Len(s) + 1
    ELSE LET t == pat[p]
             here == k <= Len(s) /\ Lower(s[k]) = t.c
         IN CASE t.k = "lit" -> here /\ MatchToEnd(pat, p + 1, s, k + 1)
              [] t.k = "opt" -> \/ here /\ MatchToEnd(pat, p + 1, s, k + 1)
                                \/ MatchToEnd(pat, p + 1, s, k)
              [] t.k = "ws0" -> \/ MatchToEnd(pat, p + 1, s, k)
                                \/ here /\ MatchToEnd(pat, p, s, k + 1)
              [] t.k = "ws1" -> here /\ \/ MatchToEnd(pat, p + 1, s, k + 1)
                                        \/ MatchToEnd(pat, p, s, k + 1)

\* LEGAL_FORMS_REGEX.sub("", n): the leftmost match is cut off
LegalFormsSub(s) ==
    LET starts == {k \in 1..Len(s) :
                     \E pat \in LEGAL_FORMS_REGEX : MatchToEnd(pat, 1, s, k)}
    IN IF starts = {} THEN s ELSE SubSeq(s, 1, Min(starts) - 1)

clean_company_name(name) ==
    IF name = <<>> THEN <<>>
    ELSE LET n1 == StripChars(strip(name), QuoteChars)
             n2 == IF InSeq(",", n1) THEN strip(BeforeComma(n1)) ELSE n1
             n3 == strip(LegalFormsSub(n2))
         IN CollapseSpaces(n3)

\* the loop body of generate_query_variants, without the `if x` test
AddVariant_KeepEmpty(vs, x) ==
    LET y == strip(x) IN IF ~InSeq(y, vs) THEN Append(vs, y) ELSE vs

\* the loop body of generate_query_variants
AddVariant(vs, x) ==
    LET y == strip(x) IN IF y # <<>> /\ ~InSeq(y, vs) THEN Append(vs, y) ELSE vs

\* generate_query_variants trying the cleaned name before the raw one
generate_query_variants_CleanedFirst(name) ==
    LET raw     == strip(name)
        cleaned == clean_company_name(raw)
    IN AddVariant(AddVariant(AddVariant(AddVariant(<<>>, cleaned), raw),
                             strip_accents(raw)),
                  strip_accents(cleaned))

generate_query_variants(name) ==
    LET raw     == strip(name)
        cleaned == clean_company_name(raw)
    IN AddVariant(AddVariant(AddVariant(AddVariant(<<>>, raw), cleaned),
                             strip_accents(raw)),
                  strip_accents(cleaned))

----------------------------------------------------------------------------
(* Records of the remote service and the identifier extraction *)

IsDigit(c) == c \in {"0", "1", "2", "3", "4", "5", "6", "7", "8", "9"}

\* int(ch) for a digit ch
DigitVal(ch) ==
    CASE ch = "0" -> 0 [] ch = "1" -> 1 [] ch = "2" -> 2 [] ch = "3" -> 3
      [] ch = "4" -> 4 [] ch = "5" -> 5 [] ch = "6" -> 6 [] ch = "7" -> 7
      [] ch = "8" -> 8 [] ch = "9" -> 9

\* weights = [8, 7, 6, 5, 4, 3, 2]
ICO_WEIGHTS == <<8, 7, 6, 5, 4, 3, 2>>

\* sum(d * w for d, w in zip(digits[:7], weights)), over the first k pairs
RECURSIVE WeightedSum(_, _)
WeightedSum(ico, k) ==
    IF k = 0 THEN 0
    ELSE DigitVal(ico[k]) * ICO_WEIGHTS[k] + WeightedSum(ico, k - 1)

\* is_valid_ico with the weights in ascending order
is_valid_ico_WeightsAscending(ico) ==
    IF ~(Len(ico) = 8 /\ \A k \in 1..Len(ico) : IsDigit(ico[k])) THEN FALSE
    ELSE LET s     == WeightedSum([k \in 1..7 |-> ico[8 - k]], Len(ICO_WEIGHTS))
             mod   == s % 11
             check == CASE mod = 0 -> 1 [] mod = 1 -> 0 [] OTHER -> 11 - mod
         IN DigitVal(ico[8]) = check

\* is_valid_ico of get_ico_chatgpt.py
is_valid_ico(ico) ==
    IF ~(Len(ico) = 8 /\ \A k \in 1..Len(ico) : IsDigit(ico[k])) THEN FALSE
    ELSE LET s     == WeightedSum(ico, Len(ICO_WEIGHTS))
             mod   == s % 11
             check == CASE mod = 0 -> 1 [] mod = 1 -> 0 [] OTHER -> 11 - mod
         IN DigitVal(ico[8]) = check

\* normalize_ico measuring the value before the non-digits are removed
normalize_ico_RawLength(value) ==
    IF value = None \/ value = <<>> THEN None
    ELSE LET digits == SelectSeq(value, IsDigit)
         IN IF Len(value) = 8 THEN digits ELSE None

\* normalize_ico: re.sub(r"\D+", "", value), kept when 8 digits remain
normalize_ico(value) ==
    IF value = None \/ value = <<>> THEN None
    ELSE LET digits == SelectSeq(value, IsDigit)
         IN IF Len(digits) = 8 THEN digits ELSE None

\* names_match
names_match(a, b) ==
    casefold(clean_company_name(a)) = casefold(clean_company_name(b))

\* a record is a dict: kind "dict" (non-empty), "emptydict" ({}) or "None"
NoRecord == [kind |-> "None", fullNames |-> <<>>, identifiers |-> <<>>]
Truthy(rec) == rec.kind = "dict"

\* fn.get("value") or ""
FnValue(fn) == IF fn = None THEN <<>> ELSE fn

RecMatches(rec, query_name) ==
    \E j \in 1..Len(rec.fullNames) : names_match(FnValue(rec.fullNames[j]), query_name)

\* choose_best_record returning the last record that matches
choose_best_record_LastMatch(records, query_name) ==
    LET hits == {k \in 1..Len(records) : RecMatches(records[k], query_name)}
    IN IF hits # {} THEN <<records[CHOOSE k \in hits : \A j \in hits : j <= k], "exact">>
       ELSE IF records # <<>> THEN <<records[1], "first">>
       ELSE <<NoRecord, "first">>

\* choose_best_record: <<record, strategy>>
choose_best_record(records, query_name) ==
    LET hits == {k \in 1..Len(records) : RecMatches(records[k], query_name)}
    IN IF hits # {} THEN <<records[Min(hits)], "exact">>
       ELSE IF records # <<>> THEN <<records[1], "first">>
       ELSE <<NoRecord, "first">>

ICO_TYPES == { <<"i", "c", "o">>, <<"i", "c^", "o">>, <<"i", "c", "o", "_", "s", "k">> }

\* (ident.get("type", {}).get("value") or "").casefold()
TypeVal(ident) == IF ident.type = None THEN <<>> ELSE casefold(ident.type)

\* extract_ico_from_record with one pass over the identifiers
extract_ico_from_record_FirstValid(record) ==
    LET ids   == record.identifiers
        anyId == {k \in 1..Len(ids) : normalize_ico(ids[k].value) # None}
    IN IF anyId = {} THEN <<None, "Other">>
       ELSE <<normalize_ico(ids[Min(anyId)].value),
              IF TypeVal(ids[Min(anyId)]) \in ICO_TYPES THEN "ICO" ELSE "Other">>

\* extract_ico_from_record: <<ico, id_type>>
extract_ico_from_record(record) ==
    LET ids     == record.identifiers
        primary == {k \in 1..Len(ids) : /\ TypeVal(ids[k]) \in ICO_TYPES
                                        /\ normalize_ico(ids[k].value) # None}
        anyId   == {k \in 1..Len(ids) : normalize_ico(ids[k].value) # None}
    IN IF primary # {} THEN <<normalize_ico(ids[Min(primary)].value), "ICO">>
       ELSE IF anyId # {} THEN <<normalize_ico(ids[Min(anyId)].value), "Other">>
       ELSE <<None, "Other">>

\* the loop `matched_name = fn.get("value") or matched_name`
RECURSIVE MatchedName(_, _)
MatchedName(fns, acc) ==
    IF fns = <<>> THEN acc
    ELSE MatchedName(Tail(fns),
                     IF Head(fns) # None /\ Head(fns) # <<>> THEN Head(fns) ELSE acc)

(* Values the modelled remote service answers with *)
V8      == <<"1", "2", "3", "4", "5", "6", "7", "8">>
V8b     == <<"8", "7", "6", "5", "4", "3", "2", "1">>
V7      == <<"1", "2", "3", "4", "5", "6", "7">>
VDashed == <<"1", "2", "3", "-", "4", "5", ".", "6", "7", "8">>

Ident(t, v) == [type |-> t, value |-> v]
Rec(fns, ids) == [kind |-> "dict", fullNames |-> fns, identifiers |-> ids]

RecA      == Rec(<< <<"a">> >>, << Ident(<<"I", "C", "O">>, V8) >>)
RecNoId   == Rec(<< <<"s">> >>, << Ident(<<"i", "c", "o">>, V7) >>)
RecMulti  == Rec(<< <<"A", " ", "a", ".", "s", ".">>, <<"s", "a">> >>,
                 << Ident(<<"v", "a", "t">>, V8b), Ident(<<"I", "C^", "O">>, VDashed) >>)
RecOther  == Rec(<< None >>, << Ident(None, V7), Ident(<<"v", "a", "t">>, V8b) >>)
RecEmptyDict == [kind |-> "emptydict", fullNames |-> <<>>, identifiers |-> <<>>]

ResultLists == { <<RecA>>, <<RecNoId, RecA>>, <<RecOther, RecMulti>>, <<RecEmptyDict>> }

\* the names and the result lists a batch run is driven with
OrchNames == { <<" ">>, <<"a">> }
OrchResultLists == { <<RecNoId, RecA>>, <<RecNoId>> }

\* clean_company_name, generate_query_variants and choose_best_record over the
\* values of the model
\* (@@ makes the function a table that is computed once)
\* a name with an accent and a legal form: it has four variants
FourVariantName == <<"a/", "a", "s">>
LookupNames == TextsOver(LookupAlphabet, MaxNameLen) \cup {FourVariantName}

ModelNames == LookupNames \cup OrchNames
CleanOf == [nm \in ModelNames |-> clean_company_name(nm)] @@ <<>>
VariantsOf == [nm \in ModelNames |-> generate_query_variants(nm)] @@ <<>>
ModelVariants == UNION {Range(VariantsOf[nm]) : nm \in ModelNames}
BestOf ==
    [records \in ResultLists \cup OrchResultLists, query_name \in ModelVariants |->
        choose_best_record(records, query_name)] @@ <<>>

----------------------------------------------------------------------------
(* rpo_lookup_detail, one step per remote request *)

NullRes == [ICO |-> None, UsedQueryVariant |-> None, MatchedFullName |-> None,
            IdentifierType |-> NoTag, MatchStrategy |-> NoTag, Notes |-> None]
NoOutcome == [kind |-> "none", res |-> NullRes, err |-> ""]

NOT_FOUND_NOTE == <<"Not found after variants/retries">>
NO_VALID_ICO_NOTE == <<"Identifiers without valid ICO">>

\* the final return carrying the variant tried last
NotFound_LastVariant(vs) ==
    [ICO |-> None,
     UsedQueryVariant |-> IF vs # <<>> THEN vs[Len(vs)] ELSE None,
     MatchedFullName |-> None, IdentifierType |-> NoTag, MatchStrategy |-> NoTag,
     Notes |-> NOT_FOUND_NOTE]

\* the final return without its note
NotFound_NoNote(vs) ==
    [ICO |-> None,
     UsedQueryVariant |-> IF vs # <<>> THEN vs[1] ELSE None,
     MatchedFullName |-> None, IdentifierType |-> NoTag, MatchStrategy |-> NoTag,
     Notes |-> None]

\* the final return of rpo_lookup_detail
NotFound(vs) ==
    [ICO |-> None,
     UsedQueryVariant |-> IF vs # <<>> THEN vs[1] ELSE None,
     MatchedFullName |-> None, IdentifierType |-> NoTag, MatchStrategy |-> NoTag,
     Notes |-> NOT_FOUND_NOTE]

\* the returns inside the loop, both carrying the note
Decisive_NoteAlways(best, match_strategy, variant) ==
    LET e == extract_ico_from_record(best)
    IN [ICO |-> e[1],
        UsedQueryVariant |-> variant,
        MatchedFullName |-> MatchedName(best.fullNames, None),
        IdentifierType |-> e[2],
        MatchStrategy |-> match_strategy,
        Notes |-> NO_VALID_ICO_NOTE]

\* the two returns inside the loop
Decisive(best, match_strategy, variant) ==
    LET e == extract_ico_from_record(best)
    IN [ICO |-> e[1],
        UsedQueryVariant |-> variant,
        MatchedFullName |-> MatchedName(best.fullNames, None),
        IdentifierType |-> e[2],
        MatchStrategy |-> match_strategy,
        Notes |-> IF e[1] # None THEN None ELSE NO_VALID_ICO_NOTE]

InLookup(i) == i \in DOMAIN tstate /\ tstate[i] = "lookup"

Log(i, kind, sl) ==
    reqs' = IF hist
            THEN [reqs EXCEPT ![i] =
                    Append(@, [v |-> vi[i], attempt |-> attempt[i], kind |-> kind,
                               sleep |-> sl])]
            ELSE reqs

Return(i, res) ==
    /\ tstate' = [tstate EXCEPT ![i] = "done"]
    /\ outcome' = [outcome EXCEPT ![i] = [kind |-> "ret", res |-> res, err |-> ""]]
    /\ UNCHANGED <<vi, attempt>>

Raise(i, e) ==
    /\ tstate' = [tstate EXCEPT ![i] = "done"]
    /\ outcome' = [outcome EXCEPT ![i] = [kind |-> "exc", res |-> NullRes, err |-> e]]
    /\ UNCHANGED <<vi, attempt>>

\* `break`, or the retry loop running out: the next variant, or the final return
NextVariant(i) ==
    IF vi[i] < Len(variants[i])
    THEN /\ vi' = [vi EXCEPT ![i] = @ + 1]
         /\ attempt' = [attempt EXCEPT ![i] = 1]
         /\ UNCHANGED <<tstate, outcome>>
    ELSE Return(i, NotFound(variants[i]))

\* giving the variant up after its first failed attempt
Retry_GiveUp(i) == NextVariant(i)

\* a retry loop that makes one attempt more
Retry_OneMore(i) ==
    IF attempt[i] < RETRY_COUNT + 1
    THEN /\ attempt' = [attempt EXCEPT ![i] = @ + 1]
         /\ UNCHANGED <<vi, tstate, outcome>>
    ELSE NextVariant(i)

\* after time.sleep(RETRY_SLEEP_BASE * attempt): the next attempt
Retry(i) ==
    IF attempt[i] < RETRY_COUNT
    THEN /\ attempt' = [attempt EXCEPT ![i] = @ + 1]
         /\ UNCHANGED <<vi, tstate, outcome>>
    ELSE NextVariant(i)

\* variants = generate_query_variants(company_name); no variant: the final return
LookupBegin(i) ==
    /\ i \in DOMAIN tstate
    /\ \/ tstate[i] = "lookup_call"
       \/ tstate[i] = "acquire" /\ lpc[i] = "acquired"   \* task: acquire() returned
    /\ LET vs == VariantsOf[company_names[i]]
       IN /\ variants' = [variants EXCEPT ![i] = vs]
          /\ IF vs = <<>>
             THEN /\ tstate' = [tstate EXCEPT ![i] = "done"]
                  /\ outcome' = [outcome EXCEPT ![i] =
                                   [kind |-> "ret", res |-> NotFound(vs), err |-> ""]]
             ELSE /\ tstate' = [tstate EXCEPT ![i] = "lookup"]
                  /\ UNCHANGED outcome
    /\ UNCHANGED <<vi, attempt, reqs, company_names, hist, remote, fcall, limVars, mainVars>>

\* r.status_code != 200
RespStatus(i) ==
    /\ InLookup(i)
    /\ Log(i, "transient", RETRY_SLEEP_BASE * attempt[i])
    /\ Retry(i)
    /\ UNCHANGED <<variants, company_names, hist, remote, fcall, limVars, mainVars>>

\* requests.get raises requests.RequestException
RespTransport(i) ==
    /\ InLookup(i)
    /\ Log(i, "transient", RETRY_SLEEP_BASE * attempt[i])
    /\ Retry(i)
    /\ UNCHANGED <<variants, company_names, hist, remote, fcall, limVars, mainVars>>

\* an empty result list that is slept on and retried
RespEmpty_Retry(i) ==
    /\ InLookup(i)
    /\ Log(i, "empty", RETRY_SLEEP_BASE * attempt[i])
    /\ Retry(i)
    /\ UNCHANGED <<variants, company_names, hist, remote, fcall, limVars, mainVars>>

\* status 200, `records` empty: break
RespEmpty(i) ==
    /\ InLookup(i)
    /\ Log(i, "empty", 0)
    /\ NextVariant(i)
    /\ UNCHANGED <<variants, company_names, hist, remote, fcall, limVars, mainVars>>

\* status 200 with records: choose, extract, return (or break on a falsy best)
RespRecords(i) ==
    /\ InLookup(i)
    /\ \E records \in remote :
         LET variant == variants[i][vi[i]]
             cb      == BestOf[records, variant]
         IN IF ~Truthy(cb[1])
            THEN Log(i, "falsy", 0) /\ NextVariant(i)
            ELSE Log(i, "records", 0) /\ Return(i, Decisive(cb[1], cb[2], variant))
    /\ UNCHANGED <<variants, company_names, hist, remote, fcall, limVars, mainVars>>

\* status 200 with a body of another shape: AttributeError / TypeError, not caught
RespMalformed(i) ==
    /\ InLookup(i)
    /\ Log(i, "raise", 0)
    /\ Raise(i, "AttributeError")
    /\ UNCHANGED <<variants, company_names, hist, remote, fcall, limVars, mainVars>>

\* status 200, r.json() fails: a RequestException subclass in requests >= 2.27
\* (caught, slept on and retried), a plain ValueError before (not caught)
RespUnparseable(i) ==
    /\ InLookup(i)
    /\ \/ Log(i, "transient", RETRY_SLEEP_BASE * attempt[i]) /\ Retry(i)
       \/ Log(i, "raise", 0) /\ Raise(i, "ValueError")
    /\ UNCHANGED <<variants, company_names, hist, remote, fcall, limVars, mainVars>>

----------------------------------------------------------------------------
(* ThreadSafeRateLimiter.acquire, one step per statement *)

Callers == DOMAIN lpc
Max(a, b) == IF a >= b THEN a ELSE b

\* the values time.monotonic() may return next: time never runs backwards
ClockAfter(t) == {t + k * TickLen : k \in 0..(IF t < MaxTime THEN (MaxTime - t) \div TickLen ELSE 0)}

LimStep(c, from, to) ==
    /\ c \in Callers /\ lpc[c] = from
    /\ lpc' = [lpc EXCEPT ![c] = to]

\* entering the critical section without taking the lock
LockEnter_NoLock(c) ==
    /\ LimStep(c, "call", "read")
    /\ lockHolder' = c
    /\ UNCHANGED <<max_per_min, window_start, count, now, l_now, l_elapsed, l_cnt,
                   wakeAt, epoch, admitted, acqTimes, calls>>
    /\ UNCHANGED <<company_names, hist, remote, fcall, tstate, lookVars, mainVars>>

\* `with self._lock:` entered
LockEnter(c) ==
    /\ LimStep(c, "call", "read")
    /\ lockHolder = 0
    /\ lockHolder' = c
    /\ UNCHANGED <<max_per_min, window_start, count, now, l_now, l_elapsed, l_cnt,
                   wakeAt, epoch, admitted, acqTimes, calls>>
    /\ UNCHANGED <<company_names, hist, remote, fcall, tstate, lookVars, mainVars>>

\* now = time.monotonic(); elapsed = now - self.window_start
ReadClock(c) ==
    /\ LimStep(c, "read", "expiry")
    /\ \E t \in ClockAfter(now) :
         /\ now' = t
         /\ l_now' = [l_now EXCEPT ![c] = t]
         /\ l_elapsed' = [l_elapsed EXCEPT ![c] = t - window_start]
    /\ UNCHANGED <<max_per_min, window_start, count, lockHolder, l_cnt,
                   wakeAt, epoch, admitted, acqTimes, calls>>
    /\ UNCHANGED <<company_names, hist, remote, fcall, tstate, lookVars, mainVars>>

\* if elapsed >= 60: window_start = now; count = 0
CheckExpiry(c) ==
    /\ LimStep(c, "expiry", "limit")
    /\ IF l_elapsed[c] >= WINDOW
       THEN /\ window_start' = l_now[c]
            /\ count' = 0
            /\ epoch' = IF hist THEN epoch + 1 ELSE epoch
       ELSE UNCHANGED <<window_start, count, epoch>>
    /\ UNCHANGED <<max_per_min, lockHolder, now, l_now, l_elapsed, l_cnt,
                   wakeAt, admitted, acqTimes, calls>>
    /\ UNCHANGED <<company_names, hist, remote, fcall, tstate, lookVars, mainVars>>

\* if count >= max_per_min: sleep_for = max(0, 60 - elapsed); sleep if positive
CheckLimit(c) ==
    /\ c \in Callers /\ lpc[c] = "limit"
    /\ IF count >= max_per_min
       THEN LET sleep_for == Max(0, WINDOW - l_elapsed[c])
            IN IF sleep_for > 0
               THEN /\ lpc' = [lpc EXCEPT ![c] = "sleep"]
                    /\ wakeAt' = [wakeAt EXCEPT ![c] = now + sleep_for]
               ELSE /\ lpc' = [lpc EXCEPT ![c] = "reset"]
                    /\ UNCHANGED wakeAt
       ELSE /\ lpc' = [lpc EXCEPT ![c] = "incr_read"]
            /\ UNCHANGED wakeAt
    /\ UNCHANGED <<max_per_min, window_start, count, lockHolder, now, l_now,
                   l_elapsed, l_cnt, epoch, admitted, acqTimes, calls>>
    /\ UNCHANGED <<company_names, hist, remote, fcall, tstate, lookVars, mainVars>>

\* time.sleep(sleep_for) returns: at least sleep_for seconds have passed
SleepReturn(c) ==
    /\ LimStep(c, "sleep", "reset")
    /\ now' = Max(now, wakeAt[c])
    /\ UNCHANGED <<max_per_min, window_start, count, lockHolder, l_now, l_elapsed,
                   l_cnt, wakeAt, epoch, admitted, acqTimes, calls>>
    /\ UNCHANGED <<company_names, hist, remote, fcall, tstate, lookVars, mainVars>>

\* window_start = time.monotonic(); count = 0
WindowReset(c) ==
    /\ LimStep(c, "reset", "incr_read")
    /\ \E t \in ClockAfter(now) :
         /\ now' = t
         /\ window_start' = t
    /\ count' = 0
    /\ epoch' = IF hist THEN epoch + 1 ELSE epoch
    /\ UNCHANGED <<max_per_min, lockHolder, l_now, l_elapsed, l_cnt,
                   wakeAt, admitted, acqTimes, calls>>
    /\ UNCHANGED <<company_names, hist, remote, fcall, tstate, lookVars, mainVars>>

\* self.count += 1: the load
IncrRead(c) ==
    /\ LimStep(c, "incr_read", "incr_write")
    /\ l_cnt' = [l_cnt EXCEPT ![c] = count]
    /\ UNCHANGED <<max_per_min, window_start, count, lockHolder, now, l_now,
                   l_elapsed, wakeAt, epoch, admitted, acqTimes, calls>>
    /\ UNCHANGED <<company_names, hist, remote, fcall, tstate, lookVars, mainVars>>

\* self.count += 1: the store
IncrWrite(c) ==
    /\ LimStep(c, "incr_write", "unlock")
    /\ count' = l_cnt[c] + 1
    /\ admitted' = IF hist THEN Append(admitted, <<epoch, l_cnt[c] + 1>>) ELSE admitted
    /\ UNCHANGED <<max_per_min, window_start, lockHolder, now, l_now, l_elapsed,
                   l_cnt, wakeAt, epoch, acqTimes, calls>>
    /\ UNCHANGED <<company_names, hist, remote, fcall, tstate, lookVars, mainVars>>

\* acquire() returning without releasing the lock
Unlock_KeepLock(c) ==
    /\ LimStep(c, "unlock", "acquired")
    /\ UNCHANGED <<max_per_min, window_start, count, lockHolder, now, l_now,
                   l_elapsed, l_cnt, wakeAt, epoch, admitted, acqTimes, calls>>
    /\ UNCHANGED <<company_names, hist, remote, fcall, tstate, lookVars, mainVars>>

\* the `with` block is left and acquire() returns
Unlock(c) ==
    /\ LimStep(c, "unlock", "acquired")
    /\ lockHolder' = 0
    /\ acqTimes' = IF hist THEN Append(acqTimes, now) ELSE acqTimes
    /\ l_now' = [l_now EXCEPT ![c] = 0]            \* the locals are gone
    /\ l_elapsed' = [l_elapsed EXCEPT ![c] = 0]
    /\ l_cnt' = [l_cnt EXCEPT ![c] = 0]
    /\ wakeAt' = [wakeAt EXCEPT ![c] = 0]
    /\ UNCHANGED <<max_per_min, window_start, count, now, epoch, admitted, calls>>
    /\ UNCHANGED <<company_names, hist, remote, fcall, tstate, lookVars, mainVars>>

\* a free-running caller calls acquire() again
Call(c) ==
    /\ c \in Callers /\ lpc[c] \in {"idle", "acquired"}
    /\ calls < MaxCalls
    /\ lpc' = [lpc EXCEPT ![c] = "call"]
    /\ calls' = calls + 1
    /\ UNCHANGED <<max_per_min, window_start, count, lockHolder, now, l_now,
                   l_elapsed, l_cnt, wakeAt, epoch, admitted, acqTimes>>
    /\ UNCHANGED <<company_names, hist, remote, fcall, tstate, lookVars, mainVars>>

\* RateLimiter.acquire() of the command-line scripts is entered: there is no lock
CliEnter(c) ==
    /\ LimStep(c, "call", "read")
    /\ UNCHANGED <<max_per_min, window_start, count, lockHolder, now, l_now,
                   l_elapsed, l_cnt, wakeAt, epoch, admitted, acqTimes, calls>>
    /\ UNCHANGED <<company_names, hist, remote, fcall, tstate, lookVars, mainVars>>

\* RateLimiter.acquire() of the command-line scripts returns
CliReturn(c) ==
    /\ LimStep(c, "unlock", "acquired")
    /\ acqTimes' = IF hist THEN Append(acqTimes, now) ELSE acqTimes
    /\ l_now' = [l_now EXCEPT ![c] = 0]            \* the locals are gone
    /\ l_elapsed' = [l_elapsed EXCEPT ![c] = 0]
    /\ l_cnt' = [l_cnt EXCEPT ![c] = 0]
    /\ wakeAt' = [wakeAt EXCEPT ![c] = 0]
    /\ UNCHANGED <<max_per_min, window_start, count, lockHolder, now, epoch,
                   admitted, calls>>
    /\ UNCHANGED <<company_names, hist, remote, fcall, tstate, lookVars, mainVars>>

----------------------------------------------------------------------------
(* Initial values *)

LookInit(n) ==
    /\ variants = [i \in 1..n |-> <<>>]
    /\ vi = [i \in 1..n |-> 1]
    /\ attempt = [i \in 1..n |-> 1]
    /\ outcome = [i \in 1..n |-> NoOutcome]
    /\ reqs = [i \in 1..n |-> <<>>]

\* a limiter of the current window that admitted cnt calls, and callers 1..n
LimUsed(n, cnt) ==
    /\ window_start = 0
    /\ count = cnt
    /\ lockHolder = 0
    /\ now = 0
    /\ lpc = [c \in 1..n |-> "idle"]
    /\ l_now = [c \in 1..n |-> 0]
    /\ l_elapsed = [c \in 1..n |-> 0]
    /\ l_cnt = [c \in 1..n |-> 0]
    /\ wakeAt = [c \in 1..n |-> 0]
    /\ epoch = 0
    /\ admitted = <<>>
    /\ acqTimes = <<>>
    /\ calls = 0

\* ThreadSafeRateLimiter.__init__, for callers 1..n
LimInit(n) == LimUsed(n, 0)

\* the lists of the result table: [None] * n
EmptyTable(n) ==
    [ICO |-> [i \in 1..n |-> None],
     CleanName |-> [i \in 1..n |-> None],
     UsedQueryVariant |-> [i \in 1..n |-> None],
     MatchedFullName |-> [i \in 1..n |-> None],
     IdentifierType |-> [i \in 1..n |-> NoTag],
     MatchStrategy |-> [i \in 1..n |-> NoTag],
     Notes |-> [i \in 1..n |-> None]]

\* ICOProcessor.__init__: processing_stats
InitialStats ==
    [total |-> 0, processed |-> 0, successful |-> 0, failed |-> 0,
     is_processing |-> FALSE]

MainIdle(n) ==
    /\ mpc = "idle"
    /\ offset = 0
    /\ idxs = <<>>
    /\ nextSubmit = 1
    /\ table = EmptyTable(n)
    /\ stats = InitialStats
    /\ stopSeen = {}
    /\ order = <<>>

----------------------------------------------------------------------------
(* ICOProcessor.process_companies_with_progress and its worker pool *)

Fields == {"ICO", "UsedQueryVariant", "MatchedFullName", "IdentifierType",
           "MatchStrategy", "Notes"}

N == Len(company_names)
Running(i) == tstate[i] \in {"acquire", "lookup"}

\* the call: result lists and processing_stats are initialised
StartRun ==
    /\ mpc = "idle"
    /\ table' = [EmptyTable(N) EXCEPT
                   !.CleanName = [i \in 1..N |-> CleanOf[company_names[i]]]]
    /\ stats' = [total |-> N, processed |-> 0, successful |-> 0, failed |-> 0,
                 is_processing |-> TRUE]
    /\ offset' = 0
    /\ mpc' = "loop"
    /\ UNCHANGED <<idxs, nextSubmit, stopSeen, order>>
    /\ UNCHANGED <<company_names, hist, remote, fcall, tstate, lookVars, limVars>>

\* the batch loop without the stop check
LoopCheck_NoStopCheck ==
    /\ mpc = "loop"
    /\ IF offset >= N
       THEN mpc' = "final" /\ UNCHANGED <<idxs, nextSubmit>>
       ELSE /\ idxs' = [k \in 1..(IF offset + BATCH_SIZE <= N THEN BATCH_SIZE
                                  ELSE N - offset) |-> offset + k]
            /\ nextSubmit' = 1
            /\ mpc' = "submit"
    /\ UNCHANGED <<offset, table, stats, stopSeen, order>>
    /\ UNCHANGED <<company_names, hist, remote, fcall, tstate, lookVars, limVars>>

\* for offset in range(0, n, BATCH_SIZE): if not is_processing: break; idxs = ...
LoopCheck ==
    /\ mpc = "loop"
    /\ IF offset >= N
       THEN mpc' = "final" /\ UNCHANGED <<idxs, nextSubmit, stopSeen>>
       ELSE IF ~stats.is_processing
       THEN mpc' = "final" /\ stopSeen' = stopSeen \cup {offset}
            /\ UNCHANGED <<idxs, nextSubmit>>
       ELSE /\ idxs' = [k \in 1..(IF offset + BATCH_SIZE <= N THEN BATCH_SIZE
                                  ELSE N - offset) |-> offset + k]
            /\ nextSubmit' = 1
            /\ mpc' = "submit"
            /\ UNCHANGED stopSeen
    /\ UNCHANGED <<offset, table, stats, order>>
    /\ UNCHANGED <<company_names, hist, remote, fcall, tstate, lookVars, limVars>>

\* fut_map = {pool.submit(task, i, company_names[i]): i for i in idxs}
Submit ==
    /\ mpc = "submit"
    /\ IF nextSubmit <= Len(idxs)
       THEN /\ tstate' = [tstate EXCEPT ![idxs[nextSubmit]] = "queued"]
            /\ nextSubmit' = nextSubmit + 1
            /\ UNCHANGED mpc
       ELSE /\ mpc' = "collect"
            /\ UNCHANGED <<tstate, nextSubmit>>
    /\ UNCHANGED <<offset, idxs, table, stats, stopSeen, order>>
    /\ UNCHANGED <<company_names, hist, remote, fcall, lookVars, limVars>>

\* a pool thread takes the oldest queued task and starts it: task calls acquire()
TaskStart(i) ==
    /\ i \in DOMAIN tstate /\ tstate[i] = "queued"
    /\ \A j \in DOMAIN tstate : tstate[j] = "queued" => i <= j
    /\ Cardinality({j \in DOMAIN tstate : Running(j)}) < MAX_WORKERS
    /\ tstate' = [tstate EXCEPT ![i] = "acquire"]
    /\ lpc' = [lpc EXCEPT ![i] = "call"]
    /\ UNCHANGED <<max_per_min, window_start, count, lockHolder, now, l_now,
                   l_elapsed, l_cnt, wakeAt, epoch, admitted, acqTimes, calls>>
    /\ UNCHANGED <<company_names, hist, remote, fcall, lookVars, mainVars>>

\* a finished call's locals are gone, and its request log is dropped with them
Forget(i) ==
    /\ variants' = [variants EXCEPT ![i] = <<>>]
    /\ vi' = [vi EXCEPT ![i] = 1]
    /\ attempt' = [attempt EXCEPT ![i] = 1]
    /\ reqs' = [reqs EXCEPT ![i] = <<>>]

\* the results appended in completion order
ResultIndex_Appended(i) == Len(order) + 1

\* i = fut_map[fut]
ResultIndex(i) == i

\* the six assignments icos[i] = res.get("ICO") ... notes[i] = res.get("Notes")
WriteRow(i, row) ==
    [f \in DOMAIN table |->
        IF f \in Fields THEN [table[f] EXCEPT ![ResultIndex(i)] = row[f]] ELSE table[f]]

\* the row left by the except branch: only notes[i] is assigned
ExceptionRow(e) == [NullRes EXCEPT !.Notes = <<"Exception: ", e>>]

\* the except branch re-raising: the run ends here
CollectException_Abort(i) ==
    /\ mpc = "collect"
    /\ i \in Range(idxs) /\ tstate[i] = "done" /\ outcome[i].kind = "exc"
    /\ tstate' = [tstate EXCEPT ![i] = "collected"]
    /\ order' = Append(order, i)
    /\ stats' = [stats EXCEPT !.is_processing = FALSE]
    /\ mpc' = "done"
    /\ Forget(i)
    /\ UNCHANGED <<offset, idxs, nextSubmit, stopSeen, table>>
    /\ UNCHANGED <<company_names, hist, remote, fcall, outcome, limVars>>

\* a returned future counted as successful whatever it holds
CollectResult_AlwaysSuccessful(i) ==
    /\ mpc = "collect"
    /\ i \in Range(idxs) /\ tstate[i] = "done" /\ outcome[i].kind = "ret"
    /\ tstate' = [tstate EXCEPT ![i] = "collected"]
    /\ order' = Append(order, i)
    /\ table' = WriteRow(i, outcome[i].res)
    /\ stats' = [stats EXCEPT !.successful = @ + 1]
    /\ mpc' = "progress"
    /\ Forget(i)
    /\ UNCHANGED <<offset, idxs, nextSubmit, stopSeen>>
    /\ UNCHANGED <<company_names, hist, remote, fcall, outcome, limVars>>

\* as_completed yields a future that returned: res = fut.result(), the six
\* assignments, successful or failed is incremented
CollectResult(i) ==
    /\ mpc = "collect"
    /\ i \in Range(idxs) /\ tstate[i] = "done" /\ outcome[i].kind = "ret"
    /\ tstate' = [tstate EXCEPT ![i] = "collected"]
    /\ order' = Append(order, i)
    /\ table' = WriteRow(i, outcome[i].res)
    /\ stats' = IF outcome[i].res.ICO # None
                THEN [stats EXCEPT !.successful = @ + 1]
                ELSE [stats EXCEPT !.failed = @ + 1]
    /\ mpc' = "progress"
    /\ Forget(i)
    /\ UNCHANGED <<offset, idxs, nextSubmit, stopSeen>>
    /\ UNCHANGED <<company_names, hist, remote, fcall, outcome, limVars>>

\* as_completed yields a future that raised: except Exception as e
CollectException(i) ==
    /\ mpc = "collect"
    /\ i \in Range(idxs) /\ tstate[i] = "done" /\ outcome[i].kind = "exc"
    /\ tstate' = [tstate EXCEPT ![i] = "collected"]
    /\ order' = Append(order, i)
    /\ table' = [table EXCEPT !.Notes[ResultIndex(i)] = ExceptionRow(outcome[i].err).Notes]
    /\ stats' = [stats EXCEPT !.failed = @ + 1]
    /\ mpc' = "progress"
    /\ Forget(i)
    /\ UNCHANGED <<offset, idxs, nextSubmit, stopSeen>>
    /\ UNCHANGED <<company_names, hist, remote, fcall, outcome, limVars>>

\* processing_stats['processed'] += 1 and the UI updates
ProgressUpdate ==
    /\ mpc = "progress"
    /\ stats' = [stats EXCEPT !.processed = @ + 1]
    /\ mpc' = "collect"
    /\ UNCHANGED <<offset, idxs, nextSubmit, table, stopSeen, order>>
    /\ UNCHANGED <<company_names, hist, remote, fcall, tstate, lookVars, limVars>>

\* the with block left while futures of the batch are still pending
BatchDone_NoWait ==
    /\ mpc = "collect"
    /\ mpc' = "pause"
    /\ UNCHANGED <<offset, idxs, nextSubmit, table, stats, stopSeen, order>>
    /\ UNCHANGED <<company_names, hist, remote, fcall, tstate, lookVars, limVars>>

\* as_completed is exhausted and the with block shuts the pool down
BatchDone ==
    /\ mpc = "collect"
    /\ \A i \in Range(idxs) : tstate[i] = "collected"
    /\ mpc' = "pause"
    /\ UNCHANGED <<offset, idxs, nextSubmit, table, stats, stopSeen, order>>
    /\ UNCHANGED <<company_names, hist, remote, fcall, tstate, lookVars, limVars>>

\* time.sleep(1.0) returns and the for statement takes the next offset
Pause ==
    /\ mpc = "pause"
    /\ offset' = offset + BATCH_SIZE
    /\ mpc' = "loop"
    /\ UNCHANGED <<idxs, nextSubmit, table, stats, stopSeen, order>>
    /\ UNCHANGED <<company_names, hist, remote, fcall, tstate, lookVars, limVars>>

\* processing_stats['is_processing'] = False; return
Finalize ==
    /\ mpc = "final"
    /\ stats' = [stats EXCEPT !.is_processing = FALSE]
    /\ mpc' = "done"
    /\ UNCHANGED <<offset, idxs, nextSubmit, table, stopSeen, order>>
    /\ UNCHANGED <<company_names, hist, remote, fcall, tstate, lookVars, limVars>>

\* stop_processing(), called while the run is in progress
Stop ==
    /\ mpc \notin {"idle", "done"}
    /\ stats.is_processing
    /\ stats' = [stats EXCEPT !.is_processing = FALSE]
    /\ UNCHANGED <<mpc, offset, idxs, nextSubmit, table, stopSeen, order>>
    /\ UNCHANGED <<company_names, hist, remote, fcall, tstate, lookVars, limVars>>

----------------------------------------------------------------------------
(* LookupSpec: one call of rpo_lookup_detail, for every name of at most     *)
(* MaxNameLen characters and every sequence of remote responses             *)

LookupInit ==
    /\ hist = TRUE
    /\ remote = ResultLists
    /\ fcall = NoCall
    /\ company_names \in {<<nm>> : nm \in LookupNames}
    /\ tstate = <<"lookup_call">>
    /\ max_per_min = 1
    /\ LookInit(1)
    /\ LimInit(1)
    /\ MainIdle(1)

LookupNext ==
    \/ \E i \in DOMAIN tstate : LookupBegin(i)
    \/ \E i \in DOMAIN tstate : RespStatus(i)
    \/ \E i \in DOMAIN tstate : RespTransport(i)
    \/ \E i \in DOMAIN tstate : RespEmpty(i)
    \/ \E i \in DOMAIN tstate : RespRecords(i)
    \/ \E i \in DOMAIN tstate : RespMalformed(i)
    \/ \E i \in DOMAIN tstate : RespUnparseable(i)

LookupSpec == LookupInit /\ [][LookupNext]_vars

----------------------------------------------------------------------------
(* LimiterSpec: a limiter built for N requests per minute, N in 1..MaxPerMin, *)
(* and NumCallers threads calling acquire() again and again                   *)

LimiterInit ==
    /\ hist = TRUE
    /\ remote = {}
    /\ fcall = NoCall
    /\ company_names = <<>>
    /\ tstate = <<>>
    /\ max_per_min \in 1..MaxPerMin
    /\ LookInit(0)
    /\ LimInit(NumCallers)
    /\ MainIdle(0)

LimiterNext ==
    \/ \E c \in Callers : Call(c)
    \/ \E c \in Callers : LockEnter(c)
    \/ \E c \in Callers : ReadClock(c)
    \/ \E c \in Callers : CheckExpiry(c)
    \/ \E c \in Callers : CheckLimit(c)
    \/ \E c \in Callers : SleepReturn(c)
    \/ \E c \in Callers : WindowReset(c)
    \/ \E c \in Callers : IncrRead(c)
    \/ \E c \in Callers : IncrWrite(c)
    \/ \E c \in Callers : Unlock(c)

LimiterSpec == LimiterInit /\ [][LimiterNext]_vars

----------------------------------------------------------------------------
(* CliLimiterSpec: the RateLimiter of get_ico_v2.py and get_ico_chatgpt.py,  *)
(* shared by NumCallers pool threads; its acquire() has the statements of    *)
(* _acquire_internal and takes no lock                                       *)

CliLimiterNext ==
    \/ \E c \in Callers : Call(c)
    \/ \E c \in Callers : CliEnter(c)
    \/ \E c \in Callers : ReadClock(c)
    \/ \E c \in Callers : CheckExpiry(c)
    \/ \E c \in Callers : CheckLimit(c)
    \/ \E c \in Callers : SleepReturn(c)
    \/ \E c \in Callers : WindowReset(c)
    \/ \E c \in Callers : IncrRead(c)
    \/ \E c \in Callers : IncrWrite(c)
    \/ \E c \in Callers : CliReturn(c)

CliLimiterSpec == LimiterInit /\ [][CliLimiterNext]_vars

----------------------------------------------------------------------------
(* Spec: a batch run over every list of at most MaxNames names *)

Init ==
    /\ hist = FALSE
    /\ remote = OrchResultLists
    /\ fcall = NoCall
    /\ company_names \in UNION {[1..n -> OrchNames] : n \in 0..MaxNames}
    /\ tstate = [i \in 1..Len(company_names) |-> "new"]
    /\ max_per_min \in 1..MaxPerMin
    /\ LookInit(Len(company_names))
    /\ LimInit(Len(company_names))
    /\ MainIdle(Len(company_names))

\* the steps of the program's own threads
Program ==
    \/ StartRun
    \/ LoopCheck
    \/ Submit
    \/ \E i \in DOMAIN tstate : TaskStart(i)
    \/ \E c \in Callers : LockEnter(c)
    \/ \E c \in Callers : ReadClock(c)
    \/ \E c \in Callers : CheckExpiry(c)
    \/ \E c \in Callers : CheckLimit(c)
    \/ \E c \in Callers : SleepReturn(c)
    \/ \E c \in Callers : WindowReset(c)
    \/ \E c \in Callers : IncrRead(c)
    \/ \E c \in Callers : IncrWrite(c)
    \/ \E c \in Callers : Unlock(c)
    \/ \E i \in DOMAIN tstate : LookupBegin(i)
    \/ \E i \in DOMAIN tstate : RespStatus(i)
    \/ \E i \in DOMAIN tstate : RespTransport(i)
    \/ \E i \in DOMAIN tstate : RespEmpty(i)
    \/ \E i \in DOMAIN tstate : RespRecords(i)
    \/ \E i \in DOMAIN tstate : RespMalformed(i)
    \/ \E i \in DOMAIN tstate : RespUnparseable(i)
    \/ \E i \in DOMAIN tstate : CollectResult(i)
    \/ \E i \in DOMAIN tstate : CollectException(i)
    \/ ProgressUpdate
    \/ BatchDone
    \/ Pause
    \/ Finalize

Next == Program \/ Stop

Spec == Init /\ [][Next]_vars

\* every thread that can run is eventually scheduled
FairSpec == Spec /\ WF_vars(Program)

----------------------------------------------------------------------------
(* TaskSpec: one worker task, acquire() and then rpo_lookup_detail(name),   *)
(* on a limiter that earlier tasks may have used, with the history recorded *)

TaskInit ==
    /\ hist = TRUE
    /\ remote = ResultLists
    /\ fcall = NoCall
    /\ company_names \in {<<nm>> : nm \in OrchNames}
    /\ tstate = <<"acquire">>
    /\ max_per_min \in 1..MaxPerMin
    /\ LookInit(1)
    /\ \E cnt \in 0..max_per_min : LimUsed(1, cnt)
    /\ MainIdle(1)

\* the task body starts: self.rate_limiter.acquire() is called
TaskCall(i) ==
    /\ i \in DOMAIN tstate /\ tstate[i] = "acquire" /\ lpc[i] = "idle"
    /\ lpc' = [lpc EXCEPT ![i] = "call"]
    /\ UNCHANGED <<max_per_min, window_start, count, lockHolder, now, l_now,
                   l_elapsed, l_cnt, wakeAt, epoch, admitted, acqTimes, calls>>
    /\ UNCHANGED <<company_names, hist, remote, fcall, tstate, lookVars, mainVars>>

TaskNext ==
    \/ \E i \in DOMAIN tstate : TaskCall(i)
    \/ \E c \in Callers : LockEnter(c)
    \/ \E c \in Callers : ReadClock(c)
    \/ \E c \in Callers : CheckExpiry(c)
    \/ \E c \in Callers : CheckLimit(c)
    \/ \E c \in Callers : SleepReturn(c)
    \/ \E c \in Callers : WindowReset(c)
    \/ \E c \in Callers : IncrRead(c)
    \/ \E c \in Callers : IncrWrite(c)
    \/ \E c \in Callers : Unlock(c)
    \/ \E i \in DOMAIN tstate : LookupBegin(i)
    \/ \E i \in DOMAIN tstate : RespStatus(i)
    \/ \E i \in DOMAIN tstate : RespTransport(i)
    \/ \E i \in DOMAIN tstate : RespEmpty(i)
    \/ \E i \in DOMAIN tstate : RespRecords(i)
    \/ \E i \in DOMAIN tstate : RespMalformed(i)
    \/ \E i \in DOMAIN tstate : RespUnparseable(i)

TaskSpec == TaskInit /\ [][TaskNext]_vars

----------------------------------------------------------------------------
(* FnSpec: one call of one of the pure helper functions, on arguments drawn *)
(* from bounded sets; fcall records the call and what it returned           *)

\* identifier values given to normalize_ico and found in records
IcoValues ==
    TextsOver({"1", "-"}, MaxIcoLen) \cup {None, V8, V8b, V7, VDashed}

\* type tags and values of the identifiers of a record
IdentTypes == { <<"I", "C", "O">>, <<"I", "C^", "O">>,
                <<"i", "c", "o", "_", "s", "k">>, <<"v", "a", "t">>, None }
IdentValues == {V8, V8b, V7, VDashed, None}
IdentLists ==
    UNION {[1..k -> {Ident(t, v) : t \in IdentTypes, v \in IdentValues}] :
             k \in 0..MaxRecords}

\* the records of a result list and the names they are searched with
RecordPool == {RecA, RecNoId, RecMulti, RecOther, RecEmptyDict}
RecordLists == UNION {[1..k -> RecordPool] : k \in 0..MaxRecords}
QueryNames == { <<"a">>, <<"A">>, <<"s", "a">>, <<"a", ".", "s", ".">>,
                <<"s", ",", "a">>, <<"a/">> }

FnInit ==
    /\ hist = FALSE
    /\ remote = {}
    /\ fcall = NoCall
    /\ company_names = <<>>
    /\ tstate = <<>>
    /\ max_per_min = 1
    /\ LookInit(0)
    /\ LimInit(0)
    /\ MainIdle(0)

\* the call fn(args) returns result
FnCall(fn, args, result) ==
    /\ fcall = NoCall
    /\ fcall' = [fn |-> fn, args |-> args, result |-> result]
    /\ UNCHANGED <<company_names, hist, remote, tstate, lookVars, limVars, mainVars>>

CallChooseBestRecord ==
    \E records \in RecordLists, query_name \in QueryNames :
        FnCall("choose_best_record", <<records, query_name>>,
               choose_best_record(records, query_name))

CallExtractIco ==
    \E ids \in IdentLists :
        FnCall("extract_ico_from_record", <<Rec(<<>>, ids)>>,
               extract_ico_from_record(Rec(<<>>, ids)))

CallNormalizeIco ==
    \E value \in IcoValues :
        FnCall("normalize_ico", <<value>>, normalize_ico(value))

CallGenerateQueryVariants ==
    \E name \in Texts(MaxNameLen) :
        FnCall("generate_query_variants", <<name>>, generate_query_variants(name))

\* identifiers given to is_valid_ico: every string of 8 of the digits 0, 1
\* and 9, the identifiers 3161942d, and values that are not 8 digits
ChecksumInputs ==
    [1..8 -> {"0", "1", "9"}]
      \cup {<<"3", "1", "6", "1", "9", "4", "2", d>> :
               d \in {"0", "1", "2", "3", "4", "5", "6", "7", "8", "9"}}
      \cup {V8, V8b, V7, VDashed}

CallIsValidIco ==
    \E ico \in ChecksumInputs : FnCall("is_valid_ico", <<ico>>, is_valid_ico(ico))

CallCleanCompanyName ==
    \E name \in Texts(MaxNameLen) :
        FnCall("clean_company_name", <<name>>, clean_company_name(name))

(* The Streamlit pipeline around a run: utils/excel_handler.py *)

\* a cell without a value, and the texts astype(str) may turn it into
\* (the pandas version decides)
NaN == <<"NaN">>
NanTexts == { <<"n", "a", "n">>, <<>> }

\* the cells of the company-name column and the columns of at most MaxRows rows
Cells == { NaN, <<" ">>, <<"a">>, <<"A", " ", "a", "s">> }
CellColumns == UNION {[1..k -> Cells] : k \in 0..MaxRows}

\* df[column].astype(str).fillna("").str.strip(), one cell
AsTypeStr(cell, nan_text) == strip(IF cell = NaN THEN nan_text ELSE cell)

NonEmpty(x) == x # <<>>

\* prepare_dataframe_for_processing: the stripped cells that are not ""
prepare_dataframe_for_processing(column, nan_text) ==
    SelectSeq([r \in 1..Len(column) |-> AsTypeStr(column[r], nan_text)], NonEmpty)

\* while len(values) < len(output_df): values.append(None)
PadValues(values, n) ==
    values \o [k \in 1..(IF Len(values) < n THEN n - Len(values) ELSE 0) |-> None]

\* create_output_dataframe, for one result list: the list after the call
\* and the column written, values[:len(output_df)]
create_output_dataframe(column, values) ==
    [values |-> PadValues(values, Len(column)),
     written |-> SubSeq(PadValues(values, Len(column)), 1, Len(column))]

\* render_processing_section and render_results_section: the names are
\* prepared, the run builds its CleanName list from them, the output table
\* is created from the original table and the results
RenderPipeline ==
    \E column \in CellColumns, nan_text \in NanTexts :
        LET names == prepare_dataframe_for_processing(column, nan_text)
            clean_names == [k \in 1..Len(names) |-> clean_company_name(names[k])]
            out == create_output_dataframe(column, clean_names)
        IN FnCall("pipeline", <<column, nan_text>>,
                  [names |-> names, given |-> clean_names,
                   values |-> out.values, written |-> out.written])

FnNext ==
    \/ CallChooseBestRecord
    \/ CallExtractIco
    \/ CallNormalizeIco
    \/ CallGenerateQueryVariants
    \/ CallIsValidIco
    \/ CallCleanCompanyName
    \/ RenderPipeline

FnSpec == FnInit /\ [][FnNext]_vars

----------------------------------------------------------------------------
(* Claims about rpo_lookup_detail (LookupSpec) *)

IsBlank(nm) == \A k \in 1..Len(nm) : nm[k] \in Whitespace
Tasks == DOMAIN tstate
Finished(i) == tstate[i] \in {"done", "collected"}
KindsOf(i) == {reqs[i][p].kind : p \in 1..Len(reqs[i])}

\* C5 as stated: rpo_lookup_detail never raises, whatever the remote answers.
C5_NeverRaises == \A i \in Tasks : outcome[i].kind # "exc"

\* C8 as stated: a blank name yields no identifier and the note "empty input".
C8_BlankNoteEmptyInput ==
    \A i \in Tasks : (IsBlank(company_names[i]) /\ Finished(i)) =>
        /\ outcome[i].kind = "ret"
        /\ outcome[i].res.ICO = None
        /\ outcome[i].res.Notes = <<"empty input">>

\* C8 amended: a blank name yields no identifier, no used variant and the
\* note "Not found after variants/retries".
C8_BlankNoteNotFound ==
    \A i \in Tasks : (IsBlank(company_names[i]) /\ Finished(i)) =>
        /\ outcome[i].kind = "ret"
        /\ outcome[i].res.ICO = None
        /\ outcome[i].res.UsedQueryVariant = None
        /\ outcome[i].res.Notes = NOT_FOUND_NOTE

\* a whitespace-only name has been looked up
C8_Witness ==
    \E i \in Tasks :
        /\ company_names[i] # <<>> /\ IsBlank(company_names[i])
        /\ Finished(i) /\ outcome[i].kind = "ret"

\* C9: for a blank name generate_query_variants returns the empty sequence and
\* rpo_lookup_detail finishes without having issued a remote request.
C9_BlankNoRequest ==
    \A i \in Tasks : IsBlank(company_names[i]) =>
        /\ generate_query_variants(company_names[i]) = <<>>
        /\ variants[i] = <<>>
        /\ reqs[i] = <<>>
        /\ tstate[i] # "lookup"

\* a whitespace-only name went through rpo_lookup_detail
C9_Witness ==
    \E i \in Tasks :
        /\ Len(company_names[i]) >= 2 /\ IsBlank(company_names[i])
        /\ Finished(i) /\ reqs[i] = <<>>

\* C10: after a status-200 response with an empty result list no further
\* request is issued for that variant and the lookup has moved past it; so a
\* variant whose first response is empty is requested exactly once.
C10_EmptyNotRetried ==
    \A i \in Tasks : \A p \in 1..Len(reqs[i]) :
        reqs[i][p].kind = "empty" =>
            /\ \A q \in (p + 1)..Len(reqs[i]) : reqs[i][q].v > reqs[i][p].v
            /\ tstate[i] = "lookup" => vi[i] = reqs[i][p].v + 1 \/
                   \E q \in (p + 1)..Len(reqs[i]) : reqs[i][q].v > reqs[i][p].v
            /\ reqs[i][p].attempt = 1 =>
                 Cardinality({q \in 1..Len(reqs[i]) : reqs[i][q].v = reqs[i][p].v}) = 1

\* an empty first response for variant 1 was followed by a request for variant 2
C10_Witness ==
    \E i \in Tasks :
        /\ Len(reqs[i]) >= 2
        /\ reqs[i][1].kind = "empty" /\ reqs[i][1].v = 1
        /\ reqs[i][2].v = 2

----------------------------------------------------------------------------
(* Claims about ThreadSafeRateLimiter (LimiterSpec) *)

InsideLock == {"read", "expiry", "limit", "sleep", "reset", "incr_read",
               "incr_write", "unlock"}

\* C2 as stated: of the acquire() calls that return within 60 seconds of the
\* first return, there are never more than max_per_min.
C2_AtMostNPer60s ==
    acqTimes # <<>> =>
        Cardinality({p \in 1..Len(acqTimes) : acqTimes[p] < acqTimes[1] + WINDOW})
            <= max_per_min

\* C3: window_start and count are only touched by the caller that holds the
\* lock, no two acquires are admitted on the same slot of the same window, and
\* every acquire leaves 1 <= count <= max_per_min, so at most max_per_min
\* acquires are admitted between two window resets.
C3_SerializedSlots ==
    /\ \A c \in Callers : lpc[c] \in InsideLock => lockHolder = c
    /\ \A p, q \in 1..Len(admitted) : p # q => admitted[p] # admitted[q]
    /\ \A p \in 1..Len(admitted) :
         /\ 1 <= admitted[p][2] /\ admitted[p][2] <= max_per_min
         /\ Cardinality({q \in 1..Len(admitted) : admitted[q][1] = admitted[p][1]})
              <= max_per_min
    /\ \A c \in Callers : lpc[c] = "unlock" => (1 <= count /\ count <= max_per_min)
    /\ count <= max_per_min

\* a caller waits for the lock while the holder, after a window reset that
\* followed a full window, is about to store the count
C3_Witness ==
    \E c, d \in Callers :
        /\ lpc[c] = "call" /\ lpc[d] = "incr_write"
        /\ epoch >= 1 /\ Len(admitted) >= max_per_min

----------------------------------------------------------------------------
(* Claims about a worker task (TaskSpec) *)

\* C4 as stated: in every state the number of remote requests issued so far is
\* at most the number of acquire() calls that have returned so far.
C4_RequestPrecededByAcquire ==
    \A i \in Tasks : Len(reqs[i]) <= Len(acqTimes)

----------------------------------------------------------------------------
(* Claims about process_companies_with_progress (Spec, FairSpec) *)

Row(i) == [f \in Fields |-> table[f][i]]
Collected == {i \in Tasks : tstate[i] = "collected"}
Returned == mpc = "done"

\* what the orchestrator stores for a finished task
Stored(i) ==
    IF outcome[i].kind = "exc" THEN ExceptionRow(outcome[i].err) ELSE outcome[i].res

\* C1: each of the seven result lists has one entry per input name, and in
\* whatever order the tasks complete, the entry at index i of a collected task
\* is the outcome of the lookup of names[i]: its used variant is one of the
\* variants of names[i]; an entry not yet collected is still empty.
C1_OrderPreserved ==
    /\ \A f \in DOMAIN table : Len(table[f]) = N
    /\ mpc # "idle" =>
         \A i \in Tasks : table.CleanName[i] = clean_company_name(company_names[i])
    /\ \A i \in Tasks :
         /\ i \in Collected => Row(i) = Stored(i)
         /\ i \notin Collected => Row(i) = NullRes
         /\ Row(i).UsedQueryVariant # None =>
               InSeq(Row(i).UsedQueryVariant, generate_query_variants(company_names[i]))

\* the run returned after a later task completed before an earlier one, with a
\* different outcome
C1_Witness ==
    /\ Returned
    /\ \E p, q \in 1..Len(order) :
         /\ p < q /\ order[p] > order[q]
         /\ Row(order[p]) # Row(order[q])
         /\ Row(order[p]).ICO # None

\* C6: under fair scheduling the batch run terminates, with one entry per
\* input name in each result list.
C6_Terminates == <>(Returned /\ \A f \in DOMAIN table : Len(table[f]) = N)

\* a run over more than one batch returned after the limiter made a task wait
\* for the next window and a task raised
C6_Witness ==
    /\ Returned /\ N > BATCH_SIZE /\ Collected = Tasks
    /\ window_start >= WINDOW
    /\ \E i \in Tasks : outcome[i].kind = "exc"

\* C7: a task that raised leaves at its index no identifier and a note that
\* starts with "Exception"; it is counted as failed and as processed; and a
\* run that was not stopped returns with every item collected, each with its
\* own outcome.
C7_ExceptionIsolated ==
    /\ \A i \in Collected : outcome[i].kind = "exc" =>
         /\ Row(i).ICO = None
         /\ Row(i).Notes[1] = "Exception: "
         /\ Row(i).Notes[2] = outcome[i].err
    /\ stats.failed =
         Cardinality({i \in Collected : outcome[i].kind = "exc" \/ outcome[i].res.ICO = None})
    /\ stats.processed = Cardinality(Collected) - (IF mpc = "progress" THEN 1 ELSE 0)
    /\ (Returned /\ stopSeen = {}) =>
         \A i \in Tasks : i \in Collected /\ Row(i) = Stored(i)

\* the run returned with an exception in the first batch and an identifier
\* found in a later batch
C7_Witness ==
    /\ Returned
    /\ \E i, j \in Collected :
         /\ i <= BATCH_SIZE /\ j > BATCH_SIZE
         /\ outcome[i].kind = "exc"
         /\ Row(i).Notes[1] = "Exception: "
         /\ Row(j).ICO # None

----------------------------------------------------------------------------
(* Claims about the retry loop and the variant loop (LookupSpec) *)

\* positions of the log of task i that are requests for variant v
ReqsFor(i, v) == {p \in 1..Len(reqs[i]) : reqs[i][p].v = v}

C12_FirstDecisiveEnds ==
    \A i \in Tasks : \A p \in 1..Len(reqs[i]) :
        reqs[i][p].kind \in {"records", "falsy"} =>
            /\ p = Len(reqs[i])
            /\ Finished(i) /\ outcome[i].kind = "ret"
            /\ outcome[i].res.UsedQueryVariant = variants[i][reqs[i][p].v]
            /\ \A v \in 1..(reqs[i][p].v - 1) :
                 \/ \E q \in ReqsFor(i, v) : reqs[i][q].kind = "empty"
                 \/ Cardinality(ReqsFor(i, v)) = RETRY_COUNT

\* variant v of task i ended without a decisive response
Exhausted(i, v) ==
    \/ \E p \in ReqsFor(i, v) : reqs[i][p].kind = "empty"
    \/ /\ Cardinality(ReqsFor(i, v)) = RETRY_COUNT
       /\ \A p \in ReqsFor(i, v) : reqs[i][p].kind = "transient"

\* C13: when every variant of a name ended in an empty result or in
\* RETRY_COUNT transient failures, the lookup has returned no identifier, the
\* note "Not found after variants/retries" and, as UsedQueryVariant, the first
\* variant generated, which is the trimmed name.
C13_NotFoundCarriesFirstVariant ==
    \A i \in Tasks :
        (variants[i] # <<>> /\ \A v \in 1..Len(variants[i]) : Exhausted(i, v)) =>
            /\ Finished(i) /\ outcome[i].kind = "ret"
            /\ outcome[i].res.ICO = None
            /\ outcome[i].res.Notes = NOT_FOUND_NOTE
            /\ outcome[i].res.UsedQueryVariant = generate_query_variants(company_names[i])[1]
            /\ outcome[i].res.UsedQueryVariant = strip(company_names[i])
            /\ outcome[i].res.MatchedFullName = None
            /\ outcome[i].res.IdentifierType = NoTag
            /\ outcome[i].res.MatchStrategy = NoTag

\* a name with two variants: the first ended in an empty result, the second in
\* RETRY_COUNT transient failures
C13_Witness ==
    \E i \in Tasks :
        /\ Len(variants[i]) = 2 /\ Finished(i)
        /\ \E p \in ReqsFor(i, 1) : reqs[i][p].kind = "empty"
        /\ Cardinality(ReqsFor(i, 2)) = RETRY_COUNT
        /\ \A p \in ReqsFor(i, 2) : reqs[i][p].kind = "transient"

----------------------------------------------------------------------------
(* Claims about the batch loop (Spec) *)

StopSignalled == mpc \notin {"idle", "done"} /\ ~stats.is_processing
BetweenBatches == mpc \in {"loop", "final", "done"}

\* C14: a batch is begun only while stop has not been signalled, and the
\* signal stays; only items of the batch begun are submitted; and whenever the
\* run is between batches or has returned, the items of the batches begun, and
\* no others, have run to completion and have their outcome recorded.
C14_StopAtBatchBoundary ==
    /\ [][(mpc # "submit" /\ mpc' = "submit") => stats.is_processing]_vars
    /\ [][StopSignalled => ~stats'.is_processing]_vars
    /\ [][\A i \in Tasks : (tstate[i] = "new" /\ tstate'[i] # "new") =>
             (mpc = "submit" /\ i \in Range(idxs))]_vars
    /\ [](BetweenBatches =>
            \A i \in Tasks :
                IF i <= offset
                THEN tstate[i] = "collected" /\ Row(i) = Stored(i)
                ELSE tstate[i] = "new" /\ Row(i) = NullRes)

\* the run returned after the stop check ended it at the second batch: the
\* first batch is recorded in full, the rest was never submitted
C14_Witness ==
    /\ Returned /\ stopSeen = {BATCH_SIZE}
    /\ Collected = 1..BATCH_SIZE
    /\ \E i \in Tasks : tstate[i] = "new"
    /\ \E i \in Collected : Row(i).ICO # None

----------------------------------------------------------------------------
(* Claims about the pure helper functions (FnSpec) *)

Called(fn) == fcall.fn = fn
NormFold(x) == casefold(clean_company_name(x))
HasName(rec, q) ==
    \E j \in 1..Len(rec.fullNames) : NormFold(FnValue(rec.fullNames[j])) = NormFold(q)

\* C15: choose_best_record returns, with strategy "exact", the first record
\* of the list that has a full name whose normalized case-folded form equals
\* the normalized case-folded query; when no record has one it returns the
\* first record with strategy "first"; for an empty list it returns
\* (None, "first").
C15_FirstExactElseFirst ==
    Called("choose_best_record") =>
        LET records == fcall.args[1]
            q       == fcall.args[2]
            best    == fcall.result[1]
            how     == fcall.result[2]
        IN /\ records = <<>> => best = NoRecord /\ how = "first"
           /\ \A k \in 1..Len(records) :
                (HasName(records[k], q) /\ \A j \in 1..(k - 1) : ~HasName(records[j], q))
                   => best = records[k] /\ how = "exact"
           /\ (records # <<>> /\ \A k \in 1..Len(records) : ~HasName(records[k], q))
                   => best = records[1] /\ how = "first"

\* two records match, the second of the list is not the one returned
C15_Witness ==
    /\ Called("choose_best_record")
    /\ Len(fcall.args[1]) = 2
    /\ HasName(fcall.args[1][1], fcall.args[2])
    /\ HasName(fcall.args[1][2], fcall.args[2])
    /\ fcall.args[1][1] # fcall.args[1][2]
    /\ fcall.result = <<fcall.args[1][1], "exact">>

DigitsOf(v) == IF v = None THEN <<>> ELSE SelectSeq(v, IsDigit)
EightDigits(v) == Len(DigitsOf(v)) = 8
PrimaryType(ident) == ident.type # None /\ casefold(ident.type) \in ICO_TYPES

\* C16: extract_ico_from_record returns the first identifier of the list
\* with a primary type tag (case-insensitive) and a value of 8 digits, tagged
\* "ICO", even behind a valid identifier of another type; without one it
\* returns the first identifier with a value of 8 digits, tagged "Other";
\* identifiers without 8 digits are skipped and with none valid the
\* identifier returned is None.
C16_PrimaryTypePreferred ==
    Called("extract_ico_from_record") =>
        LET ids == fcall.args[1].identifiers
            Primary(k) == PrimaryType(ids[k]) /\ EightDigits(ids[k].value)
            Valid(k)   == EightDigits(ids[k].value)
            D == 1..Len(ids)
        IN /\ \A k \in D :
                (Primary(k) /\ \A j \in 1..(k - 1) : ~Primary(j))
                   => fcall.result = <<DigitsOf(ids[k].value), "ICO">>
           /\ \A k \in D :
                (/\ \A j \in D : ~Primary(j)
                 /\ Valid(k) /\ \A j \in 1..(k - 1) : ~Valid(j))
                   => fcall.result = <<DigitsOf(ids[k].value), "Other">>
           /\ (\A k \in D : ~Valid(k)) => fcall.result[1] = None

\* a valid identifier of another type comes first, the primary one is returned
C16_Witness ==
    /\ Called("extract_ico_from_record")
    /\ LET ids == fcall.args[1].identifiers
       IN /\ Len(ids) = 2
          /\ ~PrimaryType(ids[1]) /\ EightDigits(ids[1].value)
          /\ PrimaryType(ids[2]) /\ EightDigits(ids[2].value)
          /\ DigitsOf(ids[1].value) # DigitsOf(ids[2].value)
          /\ fcall.result = <<DigitsOf(ids[2].value), "ICO">>

DigitCount(v) ==
    IF v = None THEN 0 ELSE Cardinality({k \in 1..Len(v) : IsDigit(v[k])})

\* C17 as stated: normalize_ico rejects "123-45.678" and accepts "12345678";
\* a value is accepted exactly when 8 digits remain after every non-digit
\* character is removed.
C17_RejectsDashedValue ==
    Called("normalize_ico") =>
        /\ fcall.args[1] = VDashed => fcall.result = None
        /\ fcall.args[1] = V8 => fcall.result = V8
        /\ fcall.result # None <=> DigitCount(fcall.args[1]) = 8

\* C17: normalize_ico accepts "123-45.678", returning "12345678", and accepts
\* "12345678"; a value is accepted exactly when 8 digits remain after every
\* non-digit character is removed, and the digits that remain are returned.
C17_EightDigitsAccepted ==
    Called("normalize_ico") =>
        /\ fcall.args[1] = VDashed => fcall.result = V8
        /\ fcall.args[1] = V8 => fcall.result = V8
        /\ fcall.result # None <=> DigitCount(fcall.args[1]) = 8
        /\ fcall.result # None =>
             /\ \A k \in 1..Len(fcall.result) : IsDigit(fcall.result[k])
             /\ Len(fcall.result) = 8

\* "123-45.678" was given and "12345678" came back
C17_Witness ==
    Called("normalize_ico") /\ fcall.args[1] = VDashed /\ fcall.result = V8

\* the four strings generate_query_variants draws from, in priority order
Candidates(name) ==
    LET raw     == strip(name)
        cleaned == clean_company_name(raw)
    IN <<strip(raw), strip(cleaned),
         strip(strip_accents(raw)), strip(strip_accents(cleaned))>>
FirstAt(cands, x) == Min({k \in 1..Len(cands) : cands[k] = x})

\* C18: generate_query_variants returns at most four strings, all non-empty
\* and pairwise distinct, in the priority order raw-trimmed, normalized,
\* accent-stripped raw, accent-stripped normalized, each kept at its first
\* occurrence only; for a non-blank name the sequence is non-empty and starts
\* with the trimmed raw name.
C18_VariantsOrderedDistinct ==
    Called("generate_query_variants") =>
        LET name  == fcall.args[1]
            vs    == fcall.result
            cands == Candidates(name)
        IN /\ Len(vs) <= 4
           /\ \A p \in 1..Len(vs) : vs[p] # <<>>
           /\ \A p, q \in 1..Len(vs) : p < q => vs[p] # vs[q]
           /\ Range(vs) = Range(cands) \ {<<>>}
           /\ \A p, q \in 1..Len(vs) :
                p < q => FirstAt(cands, vs[p]) < FirstAt(cands, vs[q])
           /\ ~IsBlank(name) => vs # <<>> /\ vs[1] = strip(name)

\* a name with an accent and a legal form gives four different variants
C18_Witness ==
    /\ Called("generate_query_variants")
    /\ Len(fcall.result) = 4
    /\ fcall.result = Candidates(fcall.args[1])

----------------------------------------------------------------------------
(* Claims about the statistics and the batches of a run (Spec) *)

WithIco == {i \in Tasks : table.ICO[i] # None}
StatsComplete ==
    /\ stats.total = N
    /\ stats.processed = N
    /\ stats.successful = Cardinality(WithIco)
    /\ stats.failed = stats.processed - stats.successful
    /\ ~stats.is_processing

\* C19: when process_companies_with_progress returns from a run in which
\* stop was not signalled (is_processing was still set when the batch loop
\* ended, so the loop never broke on the flag), total = processed = the
\* number of names, successful = the number of indices with an ICO,
\* failed = processed - successful and is_processing is false.
C19_StatsAfterFullRun ==
    /\ [][(mpc = "final" /\ stats.is_processing /\ mpc' = "done") => StatsComplete']_vars
    /\ [](Returned /\ stopSeen = {} => StatsComplete)

\* a full run of MaxNames names has returned, with and without identifiers
C19_Witness ==
    /\ Returned /\ stopSeen = {} /\ N = MaxNames
    /\ StatsComplete
    /\ stats.successful >= 1 /\ stats.failed >= 1

\* the batch an index belongs to, counted from 0
BatchOf(i) == (i - 1) \div BATCH_SIZE
Entered(from, to) == mpc # to /\ mpc' = to => mpc \in from

\* C20: batches are strictly sequential: a task of a later batch is not
\* submitted or started before every task of every earlier batch has completed
\* and had its result collected, and between the collection of one batch and
\* the submission of the next the main thread makes exactly one pause.
C20_BatchesSequential ==
    /\ [](\A i, j \in Tasks :
            (BatchOf(i) < BatchOf(j) /\ tstate[j] # "new") => tstate[i] = "collected")
    /\ [][Entered({"loop"}, "submit")]_vars
    /\ [][Entered({"idle", "pause"}, "loop")]_vars
    /\ [][Entered({"collect"}, "pause")]_vars
    /\ [][(mpc # "pause" /\ mpc' = "pause") =>
            \A i \in Tasks : BatchOf(i) <= BatchOf(offset + 1) => tstate[i] = "collected"]_vars
    /\ [][offset' # offset => (mpc = "pause" /\ offset' = offset + BATCH_SIZE)]_vars

\* a task of the second batch runs; the first batch is collected
C20_Witness ==
    /\ offset = BATCH_SIZE
    /\ \E j \in Tasks : BatchOf(j) = 1 /\ Running(j)
    /\ \E i \in Tasks : BatchOf(i) = 0
    /\ \A i \in Tasks : BatchOf(i) = 0 => tstate[i] = "collected"

----------------------------------------------------------------------------
(* Claims about the delays inside acquire() (LimiterSpec) *)

\* C21 as stated: a worker sleeping inside acquire() delays only itself:
\* while it sleeps, another worker that has called acquire() can go on.
C21_SleeperBlocksNobody ==
    \A c, d \in Callers :
        (lpc[c] = "sleep" /\ lpc[d] = "call") => ENABLED LockEnter(d)

\* C22 as stated: the RateLimiter shared by the pool threads of the
\* command-line scripts is thread-safe: no two callers are admitted on the
\* same slot of a window and count never exceeds max_per_min.
C22_CliLimiterThreadSafe ==
    /\ \A p, q \in 1..Len(admitted) : p < q => admitted[p] # admitted[q]
    /\ count <= max_per_min

----------------------------------------------------------------------------
(* Claims about the result table and the statistics of a run (Spec) *)

\* C23 as stated: when process_companies_with_progress returns, every index
\* of the result table holds an ICO or a note that explains its absence, also
\* in a run in which stop_processing was signalled before the last batch.
C23_EveryRowHasOutcome ==
    Returned => \A i \in Tasks : table.ICO[i] # None \/ table.Notes[i] # None

\* C24 as stated: in every state a concurrent reader of the progress
\* statistics can observe, processed = successful + failed and
\* processed <= total.
C24_StatsConsistentWhenPolled ==
    /\ stats.processed = stats.successful + stats.failed
    /\ stats.processed <= stats.total

----------------------------------------------------------------------------
(* Claims about the outcome of rpo_lookup_detail (LookupSpec) *)

\* C25 as stated: an outcome with match strategy "exact" carries as
\* MatchedFullName a full name that equals the query variant under the
\* normalized case-folded comparison.
C25_MatchedNameIsTheMatch ==
    \A i \in Tasks :
        (outcome[i].kind = "ret" /\ outcome[i].res.MatchStrategy = "exact") =>
            /\ outcome[i].res.MatchedFullName # None
            /\ NormFold(outcome[i].res.MatchedFullName)
                 = NormFold(outcome[i].res.UsedQueryVariant)

----------------------------------------------------------------------------
(* Claims about is_valid_ico and clean_company_name (FnSpec) *)

Ico31619421 == <<"3", "1", "6", "1", "9", "4", "2", "1">>
Ico31619428 == <<"3", "1", "6", "1", "9", "4", "2", "8">>

\* the check digit of the first seven digits d: weights 8..2, modulo 11,
\* mapped by {0 -> 1, 1 -> 0, otherwise 11 - mod}
CheckDigit(d) ==
    LET mod == (8 * DigitVal(d[1]) + 7 * DigitVal(d[2]) + 6 * DigitVal(d[3])
                  + 5 * DigitVal(d[4]) + 4 * DigitVal(d[5]) + 3 * DigitVal(d[6])
                  + 2 * DigitVal(d[7])) % 11
    IN IF mod = 0 THEN 1 ELSE IF mod = 1 THEN 0 ELSE 11 - mod

\* C26 as stated: is_valid_ico accepts the identifier with the digits
\* 3,1,6,1,9,4,2,1.
C26_ExampleAccepted ==
    (Called("is_valid_ico") /\ fcall.args[1] = Ico31619421) => fcall.result = TRUE

\* C26: is_valid_ico accepts an identifier exactly when it consists of 8
\* digits and the weighted sum of the first seven (weights 8..2) modulo 11,
\* mapped by {0 -> 1, 1 -> 0, otherwise 11 - mod}, equals the eighth digit;
\* for 3,1,6,1,9,4,2 the mapped value is 8, so 31619421 is rejected and
\* 31619428 is accepted.
C26_ChecksumDecides ==
    Called("is_valid_ico") =>
        LET ico == fcall.args[1]
        IN /\ fcall.result = TRUE <=>
                /\ Len(ico) = 8 /\ \A k \in 1..Len(ico) : IsDigit(ico[k])
                /\ DigitVal(ico[8]) = CheckDigit(ico)
           /\ ico = Ico31619421 => fcall.result = FALSE
           /\ ico = Ico31619428 => fcall.result = TRUE

\* 31619421 was given and rejected
C26_Witness ==
    Called("is_valid_ico") /\ fcall.args[1] = Ico31619421 /\ fcall.result = FALSE

Letters == {"a", "s", "A", "a/"}

\* C27 as stated: clean_company_name removes a legal form only as a separate
\* trailing token: a single word of letters that is longer than a legal-form
\* abbreviation and merely ends with its letters comes back unchanged.
C27_WordEndingKept ==
    (/\ Called("clean_company_name")
     /\ Len(fcall.args[1]) >= 3
     /\ \A k \in 1..Len(fcall.args[1]) : fcall.args[1][k] \in Letters)
        => fcall.result = fcall.args[1]

C29_RequestsBounded ==
    \A i \in Tasks :
        /\ \A v \in 1..4 : Cardinality(ReqsFor(i, v)) <= RETRY_COUNT
        /\ \A p \in 1..Len(reqs[i]) : reqs[i][p].v \in 1..4
        /\ Len(reqs[i]) <= 4 * RETRY_COUNT
        /\ \A p, q \in 1..Len(reqs[i]) : p < q => reqs[i][p].v <= reqs[i][q].v

\* a name with four variants, each requested RETRY_COUNT times
C29_Witness ==
    \E i \in Tasks :
        /\ Finished(i)
        /\ Len(variants[i]) = 4
        /\ Len(reqs[i]) = 4 * RETRY_COUNT
        /\ \A v \in 1..4 : Cardinality(ReqsFor(i, v)) = RETRY_COUNT

----------------------------------------------------------------------------
(* Claims about the Streamlit pipeline (FnSpec) *)

CellHasName(cell) == cell # NaN /\ strip(cell) # <<>>

\* C30 as stated: for every input table, also one with blank company-name
\* cells, the result values written to output row r are those resolved for
\* the company name of row r, and create_output_dataframe leaves the result
\* lists it is given unchanged.
C30_RowsAlignedListsKept ==
    Called("pipeline") =>
        /\ \A r \in 1..Len(fcall.args[1]) :
             CellHasName(fcall.args[1][r]) =>
                 fcall.result.written[r] = clean_company_name(strip(fcall.args[1][r]))
        /\ fcall.result.values = fcall.result.given

====
